---- MODULE Spec2Model ----
(***************************************************************************)
(* Model of content-archiver (src/src/main.rs): a Rocket service whose     *)
(* POST /archive handler fetches a remote URL and streams the body into an *)
(* S3-compatible object store, answering with the public URL of the        *)
(* object.                                                                 *)
(*                                                                         *)
(* Strings are sequences of one-character strings, header values are       *)
(* sequences of bytes, unsigned 64-bit integers are four 16-bit limbs      *)
(* (most significant first).                                               *)
(***************************************************************************)
EXTENDS Integers, Sequences, FiniteSets, TLC

\* ------------------------------------------------------------------ bounds

\* Longest body, in chunks, a source serves.
MaxChunks == 2

\* Chunks the transport lets the relay hold between source and store.
TransportBuffer == 1

\* Requests handled concurrently, numbered in the order they arrive.
Reqs == {1, 2}

\* ------------------------------------------------------------ option type

None == [some |-> FALSE]

Some(v) == [some |-> TRUE, val |-> v]

\* ---------------------------------------------------------------- strings

Bearer == <<"B", "e", "a", "r", "e", "r", " ">>

PublicRead == <<"public-read">>

CacheControl == <<"private, max-age=604800">>

StartsWith(s, p) == Len(s) >= Len(p) /\ SubSeq(s, 1, Len(p)) = p

\* str::strip_prefix
StripPrefix(s, p) ==
    IF StartsWith(s, p) THEN Some(SubSeq(s, Len(p) + 1, Len(s))) ELSE None

\* Position of the first occurrence of character c in s, 0 when absent.
RECURSIVE Find(_, _, _)
Find(s, c, i) ==
    IF i > Len(s) THEN 0
    ELSE IF s[i] = c THEN i
    ELSE Find(s, c, i + 1)

\* s split at every occurrence of c; never empty.
RECURSIVE Split(_, _)
Split(s, c) ==
    LET i == Find(s, c, 1) IN
    IF i = 0 THEN <<s>>
    ELSE <<SubSeq(s, 1, i - 1)>> \o Split(SubSeq(s, i + 1, Len(s)), c)

\* s without its leading occurrences of c.
RECURSIVE SkipLeading(_, _)
SkipLeading(s, c) ==
    IF s # <<>> /\ Head(s) = c THEN SkipLeading(Tail(s), c) ELSE s

\* format!("/{}/{}", bucket, suffix)
FormatSuffix(bucket, suffix) == <<"/">> \o bucket \o <<"/">> \o suffix

\* ------------------------------------------------------------------- urls

Alpha == {"a", "b", "c", "h", "k", "m", "p", "t", "x"}

SpecialSchemes == {<<"h", "t", "t", "p">>}

Err == [ok |-> FALSE]

Ok(v) == [ok |-> TRUE, val |-> v]

\* Path segments of a path string: "." is dropped, ".." removes the segment
\* before it, and either of them in last position leaves an empty segment.
RECURSIVE PathSegments(_, _)
PathSegments(segs, acc) ==
    IF segs = <<>> THEN acc
    ELSE LET seg  == Head(segs)
             last == Len(segs) = 1
             pop  == IF acc = <<>> THEN acc ELSE SubSeq(acc, 1, Len(acc) - 1)
         IN  IF seg = <<".", ".">>
             THEN PathSegments(Tail(segs), IF last THEN Append(pop, <<>>) ELSE pop)
             ELSE IF seg = <<".">>
             THEN PathSegments(Tail(segs), IF last THEN Append(acc, <<>>) ELSE acc)
             ELSE PathSegments(Tail(segs), Append(acc, seg))

ParsePath(s) ==
    PathSegments(Split(IF StartsWith(s, <<"/">>) THEN Tail(s) ELSE s, "/"), <<>>)

\* Host and path of the text after the scheme of a hierarchical url.
ParseAuthority(scheme, rest) ==
    LET s    == SkipLeading(rest, "/")
        i    == Find(s, "/", 1)
        host == IF i = 0 THEN s ELSE SubSeq(s, 1, i - 1)
        path == IF i = 0 THEN <<>> ELSE SubSeq(s, i, Len(s))
    IN  IF host = <<>> THEN Err
        ELSE Ok([scheme |-> scheme, base |-> TRUE, host |-> host,
                 path |-> ParsePath(path)])

\* Url::parse: a scheme is required; a special scheme is followed by an
\* authority; any other scheme not followed by a slash has an opaque path
\* and cannot be a base.
UrlParse(s) ==
    LET i      == Find(s, ":", 1)
        scheme == SubSeq(s, 1, i - 1)
        rest   == SubSeq(s, i + 1, Len(s))
    IN  IF i <= 1 \/ \E j \in 1..(i - 1) : s[j] \notin Alpha THEN Err
        ELSE IF scheme \in SpecialSchemes THEN ParseAuthority(scheme, rest)
        ELSE IF StartsWith(rest, <<"/", "/">>) THEN ParseAuthority(scheme, rest)
        ELSE Ok([scheme |-> scheme, base |-> FALSE, opaque |-> rest])

\* Url::join with a reference that starts with a slash: an absolute path
\* replaces the whole path of the base, two slashes start a new authority.
UrlJoin(base, ref) ==
    IF ~base.base THEN Err
    ELSE IF StartsWith(ref, <<"/", "/">>) THEN ParseAuthority(base.scheme, ref)
    ELSE Ok([base EXCEPT !.path = ParsePath(ref)])

RECURSIVE SerializePath(_)
SerializePath(segs) ==
    IF segs = <<>> THEN <<>>
    ELSE <<"/">> \o Head(segs) \o SerializePath(Tail(segs))

\* Url -> String
UrlToString(u) ==
    IF u.base
    THEN u.scheme \o <<":", "/", "/">> \o u.host \o SerializePath(u.path)
    ELSE u.scheme \o <<":">> \o u.opaque

\* --------------------------------------------------------------- integers

LimbBase == 2 ^ 16

\* Carry-propagating increment of a sequence of limbs, wrapping at the top.
RECURSIVE AddOne(_, _)
AddOne(l, i) ==
    IF i = 0 THEN l
    ELSE IF l[i] = LimbBase - 1 THEN AddOne([l EXCEPT ![i] = 0], i - 1)
    ELSE [l EXCEPT ![i] = l[i] + 1]

\* 2^64 - l
Negate(l) == AddOne([i \in 1..Len(l) |-> LimbBase - 1 - l[i]], Len(l))

\* u64 as i64: the same 64 bits read in two's complement.
AsI64(l) ==
    IF l[1] >= LimbBase \div 2
    THEN [neg |-> TRUE, mag |-> Negate(l)]
    ELSE [neg |-> FALSE, mag |-> l]

\* ToStr converting every header value.
ToStrAnyBytes(bytes) == Ok(bytes)

\* HeaderValue::to_str: only visible ASCII and tab convert.
ToStr(bytes) ==
    IF \A i \in 1..Len(bytes) : (bytes[i] >= 32 /\ bytes[i] < 127) \/ bytes[i] = 9
    THEN Ok(bytes)
    ELSE Err

\* ------------------------------------------------------------ environment

Secret == <<"k">>

Bucket == <<"b">>

\* Values of the CONTENT_ARCHIVER_ variables the process may be started with.
Configs ==
    { [bucket_name |-> Bucket, bearer_token |-> Secret, public_url |-> u,
       endpoint |-> <<"h">>] :
      u \in { <<"h", "t", "t", "p", ":", "/", "/", "h">>,
              <<"h", "t", "t", "p", ":", "/", "/", "h", "/", "p">>,
              <<"m", ":", "x">>,
              <<"h">> } }

Environments == {None} \cup {Some(c) : c \in Configs}

\* Authorization headers a caller may send.
Authorizations ==
    { None,
      Some(Bearer \o Secret),
      Some(Bearer \o <<"x">>),
      Some(Secret) }

Sources == {<<"s">>, <<"t">>}

Suffixes == {<<"a">>, <<"c">>}

\* Bodies of POST /archive
ArchiveRequest == [source : Sources, suffix : Suffixes, public : BOOLEAN]

Body(n) == [i \in 1..n |-> i]

StatusOK == 200

BadRequest == 400

InternalServerError == 500

\* What the source does with the outbound GET: the transport fails, or a
\* response arrives whose body is a stream of chunks that may break off.
FetchOutcomes ==
    {Err}
    \cup { Ok([status |-> st, content_length |-> None, content_type |-> None,
               body |-> <<>>, broken |-> FALSE]) : st \in {204, 404} }
    \cup { Ok([status |-> StatusOK, content_length |-> h[1], content_type |-> h[2],
               body |-> Body(h[3]), broken |-> h[4]]) :
           h \in { <<None, None, 0, FALSE>>,
                   <<Some(<<0, 0, 0, MaxChunks>>), Some(<<116>>), MaxChunks, FALSE>>,
                   <<Some(<<LimbBase \div 2, 0, 0, 0>>), Some(<<233>>),
                     MaxChunks - 1, TRUE>> } }

\* ------------------------------------------------------------------ state

VARIABLES
    env,        \* the CONTENT_ARCHIVER_ configuration of the process, if any
    phase,      \* "ignite", "serving" or "exited"
    managed,    \* the CommonState managed by rocket, once built
    clock,      \* Utc::now()
    pc,         \* per request: idle, guard, handler, fetching, uploading, done
    req,        \* per request: authorization header and ArchiveRequest body
    stream,     \* per request: what is left of the source's body stream
    held,       \* per request: chunks read from the source, not yet sent on
    put,        \* per request: the PutObjectRequest handed to the client
    upload,     \* per request: the object store's side of the PUT
    response,   \* per request: the response returned to the caller
    store,      \* the bucket: key -> object
    fetched,    \* per request: how the outbound GET ended (history)
    hist        \* per request: the events of its handling, in order (history)

vars == <<env, phase, managed, clock, pc, req, stream, held, put, upload,
          response, store, fetched, hist>>

NoUpload == [status |-> "none", received |-> <<>>]

NoStream == [chunks |-> <<>>, broken |-> FALSE]

Init ==
    /\ env \in Environments
    /\ phase = "ignite"
    /\ managed = None
    /\ clock = 0
    /\ pc = [r \in Reqs |-> "idle"]
    /\ req = [r \in Reqs |-> None]
    /\ stream = [r \in Reqs |-> NoStream]
    /\ held = [r \in Reqs |-> <<>>]
    /\ put = [r \in Reqs |-> None]
    /\ upload = [r \in Reqs |-> NoUpload]
    /\ response = [r \in Reqs |-> None]
    /\ store = [k \in Suffixes |-> None]
    /\ fetched = [r \in Reqs |-> None]
    /\ hist = [r \in Reqs |-> <<>>]

\* ---------------------------------------------------------------- startup

\* Main launching the server whatever load_app_config returned.
MainLaunchesAnyway ==
    /\ phase = "ignite"
    /\ LET public_url == IF env.some THEN UrlParse(env.val.public_url) ELSE Err
       IN  IF env.some /\ public_url.ok
           THEN managed' = Some([client      |-> env.val.endpoint,
                                 bucket_name  |-> env.val.bucket_name,
                                 bearer_token |-> env.val.bearer_token,
                                 public_url   |-> public_url.val])
           ELSE managed' = managed
    /\ phase' = "serving"
    /\ UNCHANGED <<env, clock, pc, req, stream, held, put, upload, response,
                   store, fetched, hist>>

\* main: the load_app_config fairing either manages a CommonState and the
\* server launches, or returns Err(rocket) and the process ends.
Main ==
    /\ phase = "ignite"
    /\ LET public_url == IF env.some THEN UrlParse(env.val.public_url) ELSE Err
       IN  IF env.some /\ public_url.ok
           THEN /\ managed' = Some([client      |-> env.val.endpoint,
                                    bucket_name  |-> env.val.bucket_name,
                                    bearer_token |-> env.val.bearer_token,
                                    public_url   |-> public_url.val])
                /\ phase' = "serving"
           ELSE /\ managed' = managed
                /\ phase' = "exited"
    /\ UNCHANGED <<env, clock, pc, req, stream, held, put, upload, response,
                   store, fetched, hist>>

\* --------------------------------------------------------------- requests

\* A POST /archive request arrives at the serving process.
Receive(r, authorization, body) ==
    /\ phase = "serving"
    /\ pc[r] = "idle"
    /\ \A q \in Reqs : q < r => pc[q] # "idle"
    /\ req' = [req EXCEPT ![r] = Some([authorization |-> authorization,
                                       body |-> body])]
    /\ pc' = [pc EXCEPT ![r] = "guard"]
    /\ hist' = [hist EXCEPT ![r] = <<"start">>]
    /\ UNCHANGED <<env, phase, managed, clock, stream, held, put, upload,
                   response, store, fetched>>

Respond(status, body) == Some([status |-> status, body |-> body])

\* Outcome::Failure((status, ())): the catcher answers, without a payload.
Failure(status) == Respond(status, None)

\* ArchiveFailure carrying a location next to the error kind.
ArchiveFailureWithLocation(error) ==
    Respond(BadRequest, Some([error |-> error, location |-> <<>>]))

\* impl From<ArchiveError> for ArchiveFailure, #[response(status = 400)]
ArchiveFailure(error) == Respond(BadRequest, Some([error |-> error]))

\* Json<ArchiveResult>
ArchiveResult(location) == Respond(StatusOK, Some([location |-> location]))

\* is_valid without the comparison of the remainder with the secret.
is_valid_any_bearer(token, valid) == StripPrefix(token, Bearer).some

\* is_valid accepting the bare secret as well.
is_valid_prefix_optional(token, valid) ==
    LET t == StripPrefix(token, Bearer)
    IN  IF t.some THEN t.val = valid ELSE token = valid

is_valid(token, valid) ==
    LET t == StripPrefix(token, Bearer)
    IN  IF t.some THEN t.val = valid ELSE FALSE

\* BearerToken::from_request
FromRequest(r) ==
    /\ pc[r] = "guard"
    /\ LET authorization == req[r].val.authorization
           outcome ==
               IF ~managed.some THEN Failure(InternalServerError)
               ELSE IF ~authorization.some THEN Failure(BadRequest)
               ELSE IF is_valid(authorization.val, managed.val.bearer_token)
               THEN None
               ELSE Failure(BadRequest)
       IN  IF outcome = None
           THEN /\ pc' = [pc EXCEPT ![r] = "handler"]
                /\ hist' = [hist EXCEPT ![r] = Append(@, "authenticated")]
                /\ UNCHANGED response
           ELSE /\ pc' = [pc EXCEPT ![r] = "done"]
                /\ hist' = [hist EXCEPT ![r] = Append(@, "rejected")]
                /\ response' = [response EXCEPT ![r] = outcome]
    /\ UNCHANGED <<env, phase, managed, clock, req, stream, held, put, upload,
                   store, fetched>>

\* archive, up to the await of reqwest::get: the GET leaves.
ArchiveGet(r) ==
    /\ pc[r] = "handler"
    /\ pc' = [pc EXCEPT ![r] = "fetching"]
    /\ hist' = [hist EXCEPT ![r] = Append(@, "get")]
    /\ UNCHANGED <<env, phase, managed, clock, req, stream, held, put, upload,
                   response, store, fetched>>

\* DateTime<Utc>::to_rfc3339
ToRfc3339(t) == <<"T", t>>

\* PutObjectRequest whose acl follows the public field of the request.
PutObjectRequestAclFromPublic(s, request, resp, now) ==
    [bucket         |-> s.bucket_name,
     key            |-> request.suffix,
     acl            |-> IF request.public THEN Some(PublicRead)
                        ELSE Some(<<"private">>),
     content_length |-> IF resp.content_length.some
                        THEN Some(AsI64(resp.content_length.val))
                        ELSE None,
     content_type   |-> IF resp.content_type.some /\ ToStr(resp.content_type.val).ok
                        THEN Some(ToStr(resp.content_type.val).val)
                        ELSE None,
     cache_control  |-> Some(CacheControl),
     metadata       |-> ("source" :> request.source)
                        @@ ("fetched-at" :> ToRfc3339(now))]

\* PutObjectRequest with the public field as a third metadata entry.
PutObjectRequestThreeEntries(s, request, resp, now) ==
    [bucket         |-> s.bucket_name,
     key            |-> request.suffix,
     acl            |-> Some(PublicRead),
     content_length |-> IF resp.content_length.some
                        THEN Some(AsI64(resp.content_length.val))
                        ELSE None,
     content_type   |-> IF resp.content_type.some /\ ToStr(resp.content_type.val).ok
                        THEN Some(ToStr(resp.content_type.val).val)
                        ELSE None,
     cache_control  |-> Some(CacheControl),
     metadata       |-> ("source" :> request.source)
                        @@ ("fetched-at" :> ToRfc3339(now))
                        @@ ("public" :> request.public)]

\* PutObjectRequest whose source metadata is taken from the suffix.
PutObjectRequestSourceFromSuffix(s, request, resp, now) ==
    [bucket         |-> s.bucket_name,
     key            |-> request.suffix,
     acl            |-> Some(PublicRead),
     content_length |-> IF resp.content_length.some
                        THEN Some(AsI64(resp.content_length.val))
                        ELSE None,
     content_type   |-> IF resp.content_type.some /\ ToStr(resp.content_type.val).ok
                        THEN Some(ToStr(resp.content_type.val).val)
                        ELSE None,
     cache_control  |-> Some(CacheControl),
     metadata       |-> ("source" :> request.suffix)
                        @@ ("fetched-at" :> ToRfc3339(now))]

\* The PutObjectRequest archive builds from the response and the request.
PutObjectRequest(s, request, resp, now) ==
    LET content_length == resp.content_length
        content_type ==
            IF resp.content_type.some /\ ToStr(resp.content_type.val).ok
            THEN Some(ToStr(resp.content_type.val).val)
            ELSE None
    IN  [bucket         |-> s.bucket_name,
         key            |-> request.suffix,
         acl            |-> Some(PublicRead),
         content_length |-> IF content_length.some
                            THEN Some(AsI64(content_length.val))
                            ELSE None,
         content_type   |-> content_type,
         cache_control  |-> Some(CacheControl),
         metadata       |-> ("source" :> request.source)
                            @@ ("fetched-at" :> ToRfc3339(now))]

\* FetchFailed without the check of the status.
FetchFailedTransportOnly(outcome) == ~outcome.ok

\* The fetch is given up: reqwest::get returned Err, or a status other
\* than 200.
FetchFailed(outcome) == ~outcome.ok \/ outcome.val.status # StatusOK

\* ArchiveFetched that issues the GET again when the fetch failed.
ArchiveFetchedRetrying(r, outcome) ==
    /\ pc[r] = "fetching"
    /\ fetched' = [fetched EXCEPT ![r] = Some(outcome)]
    /\ IF FetchFailed(outcome)
       THEN /\ hist' = [hist EXCEPT ![r] = @ \o <<"fetch_failed", "get">>]
            /\ UNCHANGED <<clock, stream, put, upload, pc, response>>
       ELSE /\ stream' = [stream EXCEPT ![r] = [chunks |-> outcome.val.body,
                                                broken |-> outcome.val.broken]]
            /\ put' = [put EXCEPT ![r] =
                          Some(PutObjectRequest(managed.val, req[r].val.body,
                                                outcome.val, clock))]
            /\ clock' = clock + 1
            /\ upload' = [upload EXCEPT ![r] = [status |-> "open", received |-> <<>>]]
            /\ pc' = [pc EXCEPT ![r] = "uploading"]
            /\ hist' = [hist EXCEPT ![r] = @ \o <<"fetched", "now", "put">>]
            /\ UNCHANGED response
    /\ UNCHANGED <<env, phase, managed, req, held, store>>

\* archive, from the return of reqwest::get to the await of put_object.
ArchiveFetched(r, outcome) ==
    /\ pc[r] = "fetching"
    /\ fetched' = [fetched EXCEPT ![r] = Some(outcome)]
    /\ IF FetchFailed(outcome)
       THEN /\ response' = [response EXCEPT ![r] = ArchiveFailure("ContentFetchFailed")]
            /\ pc' = [pc EXCEPT ![r] = "done"]
            /\ hist' = [hist EXCEPT ![r] = Append(@, "fetch_failed")]
            /\ UNCHANGED <<clock, stream, put, upload>>
       ELSE /\ stream' = [stream EXCEPT ![r] = [chunks |-> outcome.val.body,
                                                broken |-> outcome.val.broken]]
            /\ put' = [put EXCEPT ![r] =
                          Some(PutObjectRequest(managed.val, req[r].val.body,
                                                outcome.val, clock))]
            /\ clock' = clock + 1
            /\ upload' = [upload EXCEPT ![r] = [status |-> "open", received |-> <<>>]]
            /\ pc' = [pc EXCEPT ![r] = "uploading"]
            /\ hist' = [hist EXCEPT ![r] = @ \o <<"fetched", "now", "put">>]
            /\ UNCHANGED response
    /\ UNCHANGED <<env, phase, managed, req, held, store>>

\* RelayRead collecting the whole body before any of it is sent on.
RelayReadWholeBody(r) ==
    /\ pc[r] = "uploading"
    /\ upload[r].status = "open"
    /\ stream[r].chunks # <<>>
    /\ held' = [held EXCEPT ![r] = @ \o stream[r].chunks]
    /\ stream' = [stream EXCEPT ![r].chunks = <<>>]
    /\ hist' = [hist EXCEPT ![r] = Append(@, "chunk")]
    /\ UNCHANGED <<env, phase, managed, clock, pc, req, put, upload, response,
                   store, fetched>>

\* StreamingBody over bytes_stream: the client polls the next chunk of the
\* source when the transport has room for it.
RelayRead(r) ==
    /\ pc[r] = "uploading"
    /\ upload[r].status = "open"
    /\ stream[r].chunks # <<>>
    /\ Len(held[r]) < TransportBuffer
    /\ held' = [held EXCEPT ![r] = Append(@, Head(stream[r].chunks))]
    /\ stream' = [stream EXCEPT ![r].chunks = Tail(@)]
    /\ hist' = [hist EXCEPT ![r] = Append(@, "chunk")]
    /\ UNCHANGED <<env, phase, managed, clock, pc, req, put, upload, response,
                   store, fetched>>

\* RelayWrite sending the chunk twice.
RelayWriteTwice(r) ==
    /\ pc[r] = "uploading"
    /\ upload[r].status = "open"
    /\ held[r] # <<>>
    /\ upload' = [upload EXCEPT ![r].received = @ \o <<Head(held[r]), Head(held[r])>>]
    /\ held' = [held EXCEPT ![r] = Tail(@)]
    /\ UNCHANGED <<env, phase, managed, clock, pc, req, stream, put, response,
                   store, fetched, hist>>

\* The client writes the oldest chunk it holds to the store.
RelayWrite(r) ==
    /\ pc[r] = "uploading"
    /\ upload[r].status = "open"
    /\ held[r] # <<>>
    /\ upload' = [upload EXCEPT ![r].received = Append(@, Head(held[r]))]
    /\ held' = [held EXCEPT ![r] = Tail(@)]
    /\ UNCHANGED <<env, phase, managed, clock, pc, req, stream, put, response,
                   store, fetched, hist>>

\* RelayError taking the read error of the source stream for its end.
RelayErrorAsEof(r) ==
    /\ pc[r] = "uploading"
    /\ upload[r].status = "open"
    /\ stream[r].chunks = <<>>
    /\ stream[r].broken
    /\ stream' = [stream EXCEPT ![r].broken = FALSE]
    /\ UNCHANGED <<env, phase, managed, clock, pc, req, held, put, upload,
                   response, store, fetched, hist>>

\* map_err: a read error of the source stream becomes an io::Error of the
\* body, and the PUT fails with it.
RelayError(r) ==
    /\ pc[r] = "uploading"
    /\ upload[r].status = "open"
    /\ stream[r].chunks = <<>>
    /\ stream[r].broken
    /\ upload' = [upload EXCEPT ![r].status = "failed"]
    /\ held' = [held EXCEPT ![r] = <<>>]
    /\ UNCHANGED <<env, phase, managed, clock, pc, req, stream, put, response,
                   store, fetched, hist>>

\* The store has the whole body and writes the object under its key.
StoreCommit(r) ==
    /\ pc[r] = "uploading"
    /\ upload[r].status = "open"
    /\ stream[r].chunks = <<>>
    /\ ~stream[r].broken
    /\ held[r] = <<>>
    /\ upload' = [upload EXCEPT ![r].status = "stored"]
    /\ store' = [store EXCEPT ![put[r].val.key] =
                    Some([body           |-> upload[r].received,
                          acl            |-> put[r].val.acl,
                          content_length |-> put[r].val.content_length,
                          content_type   |-> put[r].val.content_type,
                          cache_control  |-> put[r].val.cache_control,
                          metadata       |-> put[r].val.metadata,
                          by             |-> r])]
    /\ UNCHANGED <<env, phase, managed, clock, pc, req, stream, held, put,
                   response, fetched, hist>>

\* The PUT fails (credentials, network, server error), whatever was sent.
StoreFail(r) ==
    /\ pc[r] = "uploading"
    /\ upload[r].status = "open"
    /\ upload' = [upload EXCEPT ![r].status = "failed"]
    /\ held' = [held EXCEPT ![r] = <<>>]
    /\ UNCHANGED <<env, phase, managed, clock, pc, req, stream, put, response,
                   store, fetched, hist>>

\* Location with the suffix of the request that arrived last, as if the
\* request were kept in state shared by the handlers.
LocationOfLatest(s, request) ==
    LET latest == CHOOSE q \in Reqs :
                      req[q].some /\ \A p \in Reqs : req[p].some => p <= q
    IN  UrlJoin(s.public_url,
                FormatSuffix(s.bucket_name, req[latest].val.body.suffix))

\* s.public_url.join(&format!("/{}/{}", s.bucket_name, suffix))
Location(s, request) ==
    UrlJoin(s.public_url, FormatSuffix(s.bucket_name, request.suffix))

\* Resolve with the result of put_object dropped.
ResolveIgnoringPut(s, request, stored) ==
    LET url == Location(s, request)
    IN  IF ~url.ok THEN ArchiveFailure("InvalidConfiguration")
        ELSE ArchiveResult(UrlToString(url.val))

\* Resolve with the error kinds of upload and fetch mixed up.
ResolveWrongKind(s, request, stored) ==
    LET url == Location(s, request)
    IN  IF ~stored THEN ArchiveFailure("ContentFetchFailed")
        ELSE IF ~url.ok THEN ArchiveFailure("InvalidConfiguration")
        ELSE ArchiveResult(UrlToString(url.val))

\* What archive answers once put_object has returned.
Resolve(s, request, stored) ==
    LET url == Location(s, request)
    IN  IF ~stored THEN ArchiveFailure("ContentUploadFailed")
        ELSE IF ~url.ok THEN ArchiveFailure("InvalidConfiguration")
        ELSE ArchiveResult(UrlToString(url.val))

\* ArchivePutReturned that deletes the object when the join fails.
ArchivePutReturnedCleaning(r) ==
    /\ pc[r] = "uploading"
    /\ upload[r].status \in {"stored", "failed"}
    /\ response' = [response EXCEPT ![r] =
                       Resolve(managed.val, req[r].val.body,
                               upload[r].status = "stored")]
    /\ hist' = [hist EXCEPT ![r] =
                   IF upload[r].status = "failed" THEN Append(@, "put_failed")
                   ELSE IF Location(managed.val, req[r].val.body).ok
                   THEN @ \o <<"put_ok", "joined">>
                   ELSE @ \o <<"put_ok", "join_failed">>]
    /\ store' = IF upload[r].status = "stored"
                   /\ ~Location(managed.val, req[r].val.body).ok
                THEN [store EXCEPT ![put[r].val.key] = None]
                ELSE store
    /\ pc' = [pc EXCEPT ![r] = "done"]
    /\ UNCHANGED <<env, phase, managed, clock, req, stream, held, put, upload,
                   fetched>>

\* ArchivePutReturned that ends a failed upload without any response.
ArchivePutReturnedSwallowed(r) ==
    /\ pc[r] = "uploading"
    /\ upload[r].status \in {"stored", "failed"}
    /\ response' = [response EXCEPT ![r] =
                       IF upload[r].status = "failed" THEN None
                       ELSE Resolve(managed.val, req[r].val.body, TRUE)]
    /\ hist' = [hist EXCEPT ![r] =
                   IF upload[r].status = "failed" THEN Append(@, "put_failed")
                   ELSE IF Location(managed.val, req[r].val.body).ok
                   THEN @ \o <<"put_ok", "joined">>
                   ELSE @ \o <<"put_ok", "join_failed">>]
    /\ pc' = [pc EXCEPT ![r] = "done"]
    /\ UNCHANGED <<env, phase, managed, clock, req, stream, held, put, upload,
                   store, fetched>>

\* archive, from the return of put_object to the response.
ArchivePutReturned(r) ==
    /\ pc[r] = "uploading"
    /\ upload[r].status \in {"stored", "failed"}
    /\ response' = [response EXCEPT ![r] =
                       Resolve(managed.val, req[r].val.body,
                               upload[r].status = "stored")]
    /\ hist' = [hist EXCEPT ![r] =
                   IF upload[r].status = "failed" THEN Append(@, "put_failed")
                   ELSE IF Location(managed.val, req[r].val.body).ok
                   THEN @ \o <<"put_ok", "joined">>
                   ELSE @ \o <<"put_ok", "join_failed">>]
    /\ pc' = [pc EXCEPT ![r] = "done"]
    /\ UNCHANGED <<env, phase, managed, clock, req, stream, held, put, upload,
                   store, fetched>>

Next ==
    \/ Main
    \/ \E r \in Reqs, a \in Authorizations, b \in ArchiveRequest : Receive(r, a, b)
    \/ \E r \in Reqs : FromRequest(r)
    \/ \E r \in Reqs : ArchiveGet(r)
    \/ \E r \in Reqs, o \in FetchOutcomes : ArchiveFetched(r, o)
    \/ \E r \in Reqs : RelayRead(r)
    \/ \E r \in Reqs : RelayWrite(r)
    \/ \E r \in Reqs : RelayError(r)
    \/ \E r \in Reqs : StoreCommit(r)
    \/ \E r \in Reqs : StoreFail(r)
    \/ \E r \in Reqs : ArchivePutReturned(r)

Spec == Init /\ [][Next]_vars

\* The steps that handle request r once it has arrived.
Handle(r) ==
    \/ FromRequest(r)
    \/ ArchiveGet(r)
    \/ \E o \in FetchOutcomes : ArchiveFetched(r, o)
    \/ RelayRead(r)
    \/ RelayWrite(r)
    \/ RelayError(r)
    \/ StoreCommit(r)
    \/ StoreFail(r)
    \/ ArchivePutReturned(r)

\* The requests of the specification with fairness: with and without a
\* valid credential, for either key.
LiveAuthorizations == {None, Some(Bearer \o Secret)}

LiveRequests == [source : {<<"s">>}, suffix : Suffixes, public : {FALSE}]

NextLive ==
    \/ Main
    \/ \E r \in Reqs, a \in LiveAuthorizations, b \in LiveRequests :
           Receive(r, a, b)
    \/ \E r \in Reqs : Handle(r)

\* The runtime keeps polling the task of every request, and every await of
\* the task (guard, GET, chunk, PUT) returns in the end.
LiveSpec ==
    Init /\ [][NextLive]_vars /\ \A r \in Reqs : WF_vars(Handle(r))

\* ----------------------------------------------------------------- claims

Started(r) == pc[r] # "idle"

Done(r) == pc[r] = "done"

Occurs(h, e) == Find(h, e, 1) > 0

Before(h, e, f) == Occurs(h, e) /\ Find(h, e, 1) < Find(h, f, 1)

\* The request was answered 200 with a location.
Success(r) ==
    /\ response[r].some
    /\ response[r].val.status = StatusOK
    /\ response[r].val.body.some
    /\ "location" \in DOMAIN response[r].val.body.val

\* The request was answered 400 with the given error kind and nothing else.
FailedWith(r, kind) ==
    /\ response[r].some
    /\ response[r].val.status = BadRequest
    /\ response[r].val.body = Some([error |-> kind])

\* The Authorization header is absent, lacks the prefix, or its remainder
\* differs from the configured secret.
BadCredential(r) ==
    LET a == req[r].val.authorization
    IN  \/ ~a.some
        \/ ~StartsWith(a.val, Bearer)
        \/ SubSeq(a.val, Len(Bearer) + 1, Len(a.val)) # managed.val.bearer_token

\* No GET and no PUT left the process for the request.
NoEgress(r) ==
    /\ ~Occurs(hist[r], "get")
    /\ ~Occurs(hist[r], "put")
    /\ fetched[r] = None
    /\ put[r] = None
    /\ upload[r] = NoUpload
    /\ \A k \in Suffixes : store[k].some => store[k].val.by # r

\* The outbound GET of the request came back with status 200.
Fetched200(r) ==
    fetched[r].some /\ fetched[r].val.ok /\ fetched[r].val.val.status = StatusOK

\* C1: a request whose Authorization header is absent, lacks the "Bearer "
\* prefix or carries another token than the configured secret never causes
\* a GET to its source nor a PUT to the store, and is answered 400.
C1_UnauthenticatedNoEgress ==
    \A r \in Reqs :
        Started(r) /\ BadCredential(r) =>
            /\ NoEgress(r)
            /\ Done(r) => response[r].some /\ response[r].val.status = BadRequest

C1_Witness ==
    \E r \in Reqs :
        /\ Done(r)
        /\ req[r].val.authorization = Some(Bearer \o <<"x">>)
        /\ response[r] = Failure(BadRequest)
        /\ \E q \in Reqs : q # r /\ Occurs(hist[q], "put")

\* C2: a request is answered 200 with a location if and only if its fetch
\* returned status 200, then its PUT was acknowledged by the store, then
\* the join of the public url succeeded, in that order; a location is never
\* returned for a key whose PUT was not acknowledged.
C2_SuccessIffAllStages ==
    \A r \in Reqs :
        /\ Success(r) => Done(r)
        /\ Done(r) =>
            ( Success(r) <=>
                /\ Fetched200(r)
                /\ upload[r].status = "stored"
                /\ UrlJoin(managed.val.public_url,
                           FormatSuffix(managed.val.bucket_name,
                                        req[r].val.body.suffix)).ok )
        /\ Success(r) =>
            /\ Before(hist[r], "get", "fetched")
            /\ Before(hist[r], "fetched", "put")
            /\ Before(hist[r], "put", "put_ok")
            /\ Before(hist[r], "put_ok", "joined")
            /\ store[req[r].val.body.suffix].some

C2_Witness ==
    \E r, q \in Reqs :
        /\ Success(r)
        /\ Done(q) /\ Fetched200(q) /\ upload[q].status = "failed" /\ ~Success(q)

\* C3: the location of a successful request is the configured public base
\* url followed by "/", the bucket, "/" and the suffix, also when the base
\* url carries a path.
C3_LocationIsBaseBucketSuffix ==
    \A r \in Reqs :
        Success(r) =>
            response[r].val.body.val.location =
                env.val.public_url \o <<"/">> \o env.val.bucket_name
                    \o <<"/">> \o req[r].val.body.suffix

\* C4: an authenticated request whose GET fails in the transport or returns
\* another status than 200 is answered 400 {"error":"ContentFetchFailed"},
\* and no PUT is issued for it.
C4_FetchFailure ==
    \A r \in Reqs :
        /\ Occurs(hist[r], "authenticated")
        /\ fetched[r].some
        /\ ~Fetched200(r)
        => /\ FailedWith(r, "ContentFetchFailed")
           /\ ~Occurs(hist[r], "put")
           /\ put[r] = None
           /\ upload[r] = NoUpload
           /\ \A k \in Suffixes : store[k].some => store[k].val.by # r

C4_Witness ==
    \E r, q \in Reqs :
        /\ fetched[r] = Some(Err) /\ Done(r)
        /\ fetched[q].some /\ fetched[q].val.ok
        /\ fetched[q].val.val.status = 204 /\ Done(q)

\* C5: an authenticated request whose fetch returned 200 and whose PUT
\* fails, for whatever reason and however much of the body was sent, is
\* answered 400 {"error":"ContentUploadFailed"} and gets no location.
C5_UploadFailure ==
    \A r \in Reqs :
        Done(r) /\ Fetched200(r) /\ upload[r].status = "failed" =>
            /\ FailedWith(r, "ContentUploadFailed")
            /\ ~Success(r)

C5_Witness ==
    \E r, q \in Reqs :
        /\ Done(r) /\ upload[r].status = "failed" /\ upload[r].received # <<>>
        /\ ~stream[r].broken
        /\ Done(q) /\ upload[q].status = "failed" /\ stream[q].broken
        /\ FailedWith(q, "ContentUploadFailed")

ErrorKinds == {"ContentFetchFailed", "ContentUploadFailed", "InvalidConfiguration"}

\* The response carries an error kind.
HasError(r) ==
    /\ response[r].some
    /\ response[r].val.body.some
    /\ "error" \in DOMAIN response[r].val.body.val

\* The response carries a location.
HasLocation(r) ==
    /\ response[r].some
    /\ response[r].val.body.some
    /\ "location" \in DOMAIN response[r].val.body.val

\* C6, as claimed: every request that fails, at the guard, the fetch, the
\* upload or the resolution, reports exactly one of the three error kinds,
\* and no error kind comes with a location.
C6_EveryFailureHasKind ==
    \A r \in Reqs :
        /\ Done(r) /\ ~Success(r) =>
               Cardinality({k \in ErrorKinds : FailedWith(r, k)}) = 1
        /\ ~(HasError(r) /\ HasLocation(r))

\* C6, amended: every request that fails at the fetch, the upload or the
\* resolution reports exactly one of the three error kinds; a request that
\* fails at the guard is answered 400 with none of them; no error kind
\* comes with a location.
C6_FailureKinds ==
    \A r \in Reqs :
        /\ Done(r) /\ ~Success(r) /\ ~Occurs(hist[r], "rejected") =>
               Cardinality({k \in ErrorKinds : FailedWith(r, k)}) = 1
        /\ Done(r) /\ Occurs(hist[r], "rejected") =>
               /\ response[r] = Failure(BadRequest)
               /\ ~HasError(r)
               /\ ~HasLocation(r)
        /\ ~(HasError(r) /\ HasLocation(r))

C6_Witness ==
    \E r, q \in Reqs :
        /\ Done(r) /\ Occurs(hist[r], "rejected") /\ response[r] = Failure(BadRequest)
        /\ Done(q) /\ FailedWith(q, "InvalidConfiguration")

\* The response archive and its guard give a request with these inputs when
\* its own GET and its own PUT end the way they did.
Expected(r) ==
    LET s   == managed.val
        b   == req[r].val.body
        url == UrlJoin(s.public_url, FormatSuffix(s.bucket_name, b.suffix))
    IN  IF BadCredential(r) THEN Failure(BadRequest)
        ELSE IF ~Fetched200(r) THEN ArchiveFailure("ContentFetchFailed")
        ELSE IF upload[r].status # "stored" THEN ArchiveFailure("ContentUploadFailed")
        ELSE IF ~url.ok THEN ArchiveFailure("InvalidConfiguration")
        ELSE ArchiveResult(UrlToString(url.val))

\* C7: while requests are handled, in any interleaving, the managed
\* CommonState never changes, and the response of every request is the one
\* its own inputs and the outcomes of its own GET and PUT determine,
\* whatever other requests are present and however far they got.
C7_NoInterference ==
    /\ [][phase = "serving" => managed' = managed]_vars
    /\ [](\A r \in Reqs : Done(r) => response[r] = Expected(r))

C7_Witness ==
    \E r, q \in Reqs :
        /\ r # q
        /\ req[r].some /\ req[q].some
        /\ req[r].val.body.suffix # req[q].val.body.suffix
        /\ Success(r)
        /\ pc[q] = "uploading" /\ upload[q].received # <<>>
        /\ store[req[r].val.body.suffix].some

\* The step in which archive returns 200 for request r.
Returns200(r) == pc[r] = "uploading" /\ pc'[r] = "done" /\ Success(r)'

\* C8, as claimed: at the moment a request is answered 200, the object
\* stored under its suffix has metadata source equal to the source of that
\* request, whatever other requests do in between.
C8_StoredSourceIsOwn ==
    [][\A r \in Reqs :
          Returns200(r) =>
              LET o == store'[req[r].val.body.suffix]
              IN  o.some /\ o.val.metadata["source"] = req[r].val.body.source]_vars

\* C8, amended: at the moment a request is answered 200, the object stored
\* under its suffix has metadata source equal to the source of the request
\* whose PUT to that key the store completed last; that is the request's own
\* source unless the PUT of another request with the same suffix was
\* completed after its own.
C8_StoredSourceIsLastWriters ==
    [][\A r \in Reqs :
          Returns200(r) =>
              LET k == req[r].val.body.suffix
                  o == store'[k]
              IN  /\ o.some
                  /\ upload[o.val.by].status = "stored"
                  /\ req[o.val.by].val.body.suffix = k
                  /\ o.val.metadata["source"] = req[o.val.by].val.body.source
                  /\ o.val.by = r =>
                         o.val.metadata["source"] = req[r].val.body.source]_vars

C8_Witness ==
    \E r, q \in Reqs :
        /\ r # q
        /\ Success(r) /\ Success(q)
        /\ req[r].val.body.suffix = req[q].val.body.suffix
        /\ req[r].val.body.source # req[q].val.body.source
        /\ store[req[r].val.body.suffix].val.by = r

\* The requests differ in the public field of their bodies and in nothing
\* else.
SameButPublic(r, q) ==
    /\ req[r].some /\ req[q].some
    /\ req[r].val.authorization = req[q].val.authorization
    /\ req[r].val.body.source = req[q].val.body.source
    /\ req[r].val.body.suffix = req[q].val.body.suffix
    /\ req[r].val.body.public # req[q].val.body.public

\* The PUT issued for a request, without the time it was built.
IssuedPut(r) ==
    IF put[r].some
    THEN Some([bucket         |-> put[r].val.bucket,
               key            |-> put[r].val.key,
               acl            |-> put[r].val.acl,
               cache_control  |-> put[r].val.cache_control,
               content_length |-> put[r].val.content_length,
               content_type   |-> put[r].val.content_type,
               source         |-> put[r].val.metadata["source"]])
    ELSE None

\* C9: two requests that differ only in their public field and meet the
\* same outcomes of GET and PUT issue the same PUT (key, acl, cache-control,
\* content headers, source metadata) and get the same response; the acl of
\* every PUT and of every stored object is "public-read".
C9_PublicIgnored ==
    /\ \A r \in Reqs : put[r].some => put[r].val.acl = Some(PublicRead)
    /\ \A k \in Suffixes : store[k].some => store[k].val.acl = Some(PublicRead)
    /\ \A r, q \in Reqs :
           /\ SameButPublic(r, q)
           /\ Done(r) /\ Done(q)
           /\ fetched[r] = fetched[q]
           /\ upload[r].status = upload[q].status
           => /\ IssuedPut(r) = IssuedPut(q)
              /\ response[r] = response[q]

C9_Witness ==
    \E r, q \in Reqs :
        /\ SameButPublic(r, q)
        /\ ~req[r].val.body.public
        /\ Success(r) /\ Success(q)
        /\ fetched[r] = fetched[q]
        /\ put[r].some /\ put[r].val.content_type.some

Guarded(r) == Occurs(hist[r], "authenticated") \/ Occurs(hist[r], "rejected")

\* C11: the guard lets a request pass if and only if its Authorization
\* header is present and is exactly "Bearer " followed by the configured
\* secret; a request it rejects, for an absent header, an absent prefix or
\* another token alike, is answered 400 without any payload, the same for
\* all three.
C11_GuardExact ==
    /\ \A r \in Reqs :
           Guarded(r) =>
               /\ Occurs(hist[r], "authenticated") <=>
                      req[r].val.authorization =
                          Some(Bearer \o managed.val.bearer_token)
               /\ Occurs(hist[r], "rejected") <=> response[r] = Failure(BadRequest)
               /\ Occurs(hist[r], "rejected") => Done(r) /\ ~HasError(r)
    /\ \A r, q \in Reqs :
           Occurs(hist[r], "rejected") /\ Occurs(hist[q], "rejected") =>
               response[r] = response[q]

C11_Witness ==
    \E r, q \in Reqs :
        /\ req[r].some /\ req[q].some
        /\ req[r].val.authorization = None
        /\ req[q].val.authorization = Some(Secret)
        /\ Occurs(hist[r], "rejected") /\ Occurs(hist[q], "rejected")
        /\ response[r] = Failure(BadRequest)

\* The configuration is missing, or its public url does not parse.
BadConfiguration == ~env.some \/ ~UrlParse(env.val.public_url).ok

\* C12: a request is handled only by a serving process whose CommonState
\* was built from a configuration that was extracted and whose public url
\* parsed; with a missing configuration or an unparsable public url the
\* process ends at startup and never handles a request.
C12_FailFast ==
    /\ (\E r \in Reqs : Started(r)) =>
           /\ phase = "serving"
           /\ managed.some
           /\ ~BadConfiguration
           /\ UrlParse(env.val.public_url) = Ok(managed.val.public_url)
    /\ phase = "serving" => managed.some /\ ~BadConfiguration
    /\ BadConfiguration /\ phase # "ignite" =>
           /\ phase = "exited"
           /\ managed = None
           /\ \A r \in Reqs : ~Started(r) /\ response[r] = None

C12_Witness ==
    /\ env.some
    /\ ~UrlParse(env.val.public_url).ok
    /\ phase = "exited"

\* C13: when every await of a request returns in the end, a request that
\* arrived ends with a response to its caller: 200 with a location, or 400.
C13_EveryRequestAnswered ==
    \A r \in Reqs :
        Started(r) ~>
            /\ Done(r)
            /\ response[r].some
            /\ \/ Success(r)
               \/ response[r].val.status = BadRequest /\ ~HasLocation(r)

C13_Witness ==
    \E r, q \in Reqs :
        /\ Done(r) /\ FailedWith(r, "ContentUploadFailed") /\ stream[r].broken
        /\ Done(q) /\ Success(q)

\* Unauthenticated -> Authenticated -> Fetching -> Relaying/Uploading ->
\* terminal, and every state before the terminal one -> terminal.
Edges ==
    { <<"idle", "guard">>, <<"guard", "handler">>, <<"handler", "fetching">>,
      <<"fetching", "uploading">>, <<"uploading", "done">>,
      <<"guard", "done">>, <<"handler", "done">>, <<"fetching", "done">> }

FailureEvents == {"rejected", "fetch_failed", "put_failed", "join_failed"}

Count(h, e) == Cardinality({i \in 1..Len(h) : h[i] = e})

\* C14: a request moves along Unauthenticated -> Authenticated -> Fetching
\* -> Relaying/Uploading -> Resolved, or from a state before the end to
\* Failed; Resolved and Failed are final; a request issues at most one GET
\* and at most one PUT, the PUT only after the GET returned 200, and nothing
\* after its first failure.
C14_StateMachine ==
    /\ [][\A r \in Reqs :
             /\ pc'[r] # pc[r] => <<pc[r], pc'[r]>> \in Edges
             /\ pc[r] = "done" =>
                    /\ pc'[r] = "done"
                    /\ response'[r] = response[r]
                    /\ hist'[r] = hist[r]
                    /\ fetched'[r] = fetched[r]
                    /\ put'[r] = put[r]
                    /\ upload'[r] = upload[r]
             /\ upload[r].status = "failed" => upload'[r] = upload[r]
             /\ upload[r].status # "open" =>
                    \A k \in Suffixes :
                        store'[k] # store[k] => store'[k].val.by # r]_vars
    /\ [](\A r \in Reqs :
             /\ Count(hist[r], "get") <= 1
             /\ Count(hist[r], "put") <= 1
             /\ Occurs(hist[r], "put") =>
                    /\ Fetched200(r)
                    /\ Before(hist[r], "get", "fetched")
                    /\ Before(hist[r], "fetched", "put")
             /\ \A i \in 1..Len(hist[r]) :
                    hist[r][i] \in FailureEvents => i = Len(hist[r]) /\ Done(r)
             /\ Done(r) =>
                    Success(r) \/ hist[r][Len(hist[r])] \in FailureEvents
             /\ Success(r) => Occurs(hist[r], "joined"))

C14_Witness ==
    \E r, q \in Reqs :
        /\ Done(r) /\ Occurs(hist[r], "fetch_failed") /\ Count(hist[r], "get") = 1
        /\ Done(q) /\ Occurs(hist[q], "put_failed") /\ Count(hist[q], "put") = 1
        /\ upload[q].received # <<>>

\* C15: when the source answers 200 and its body stream breaks off later,
\* the failure shows inside the PUT and the request is answered
\* ContentUploadFailed, never ContentFetchFailed; ContentFetchFailed is only
\* ever answered by a request that issued no PUT.
C15_StreamErrorIsUploadFailure ==
    \A r \in Reqs :
        /\ stream[r].broken => Fetched200(r) /\ Occurs(hist[r], "put")
        /\ Fetched200(r) /\ fetched[r].val.val.broken =>
               /\ upload[r].status # "stored"
               /\ ~FailedWith(r, "ContentFetchFailed")
               /\ Done(r) => FailedWith(r, "ContentUploadFailed")
        /\ FailedWith(r, "ContentFetchFailed") =>
               /\ ~Occurs(hist[r], "put")
               /\ put[r] = None
               /\ upload[r] = NoUpload

C15_Witness ==
    \E r \in Reqs :
        /\ Done(r)
        /\ stream[r].broken /\ stream[r].chunks = <<>>
        /\ Len(upload[r].received) = Len(fetched[r].val.val.body)
        /\ upload[r].received # <<>>
        /\ FailedWith(r, "ContentUploadFailed")

\* C16: InvalidConfiguration is answered only after the PUT of the request
\* was acknowledged, and nothing is cleaned up: the key of such a request
\* still holds an object although no location was returned; nor does a
\* request answered ContentUploadFailed delete or write anything. No step
\* ever removes an object from the store.
C16_NoCleanup ==
    /\ [][/\ \A k \in Suffixes : store[k].some => store'[k].some
          /\ \A r \in Reqs :
                 pc[r] = "uploading" /\ pc'[r] = "done" => store' = store]_vars
    /\ [](\A r \in Reqs :
             /\ FailedWith(r, "InvalidConfiguration") =>
                    /\ upload[r].status = "stored"
                    /\ Before(hist[r], "put", "put_ok")
                    /\ Before(hist[r], "put_ok", "join_failed")
                    /\ ~HasLocation(r)
                    /\ store[req[r].val.body.suffix].some
                    /\ store[req[r].val.body.suffix].val.by = r =>
                           store[req[r].val.body.suffix].val.metadata
                               = put[r].val.metadata
             /\ FailedWith(r, "ContentUploadFailed") =>
                    /\ upload[r].status = "failed"
                    /\ \A k \in Suffixes : store[k].some => store[k].val.by # r)

C16_Witness ==
    \E r, q \in Reqs :
        /\ FailedWith(r, "InvalidConfiguration")
        /\ store[req[r].val.body.suffix].some
        /\ store[req[r].val.body.suffix].val.by = r
        /\ FailedWith(q, "ContentUploadFailed")
        /\ req[q].val.body.suffix # req[r].val.body.suffix
        /\ store[req[q].val.body.suffix] = None

\* C17: the PUT of a request carries exactly two metadata entries, source
\* with the source of the request and fetched-at; the time in fetched-at is
\* read once, after the 200 of the fetch arrived and before the PUT is
\* issued, so after the request started, before any chunk of the body is
\* relayed and before the response.
C17_Metadata ==
    \A r \in Reqs :
        /\ put[r].some <=> Occurs(hist[r], "now")
        /\ put[r].some =>
               /\ DOMAIN put[r].val.metadata = {"source", "fetched-at"}
               /\ put[r].val.metadata["source"] = req[r].val.body.source
               /\ \E t \in 0..(clock - 1) :
                      put[r].val.metadata["fetched-at"] = <<"T", t>>
               /\ Count(hist[r], "now") = 1
               /\ Before(hist[r], "start", "get")
               /\ Before(hist[r], "get", "fetched")
               /\ Before(hist[r], "fetched", "now")
               /\ Before(hist[r], "now", "put")
               /\ Occurs(hist[r], "chunk") => Before(hist[r], "now", "chunk")
               /\ Done(r) => Find(hist[r], "now", 1) < Len(hist[r])
        /\ \A k \in Suffixes :
               store[k].some /\ store[k].val.by = r =>
                   store[k].val.metadata = put[r].val.metadata

C17_Witness ==
    \E r \in Reqs :
        /\ Success(r)
        /\ Occurs(hist[r], "chunk")
        /\ put[r].val.metadata["fetched-at"] = <<"T", 1>>
        /\ store[req[r].val.body.suffix].val.by = r

\* C18: the content-length of the PUT is the content length the fetch
\* observed, unchanged, for every value of 64 bits, also from 2^63 on, and
\* is unset exactly when the fetch observed none.
C18_ContentLengthUnchanged ==
    \A r \in Reqs :
        put[r].some =>
            LET observed == fetched[r].val.val.content_length
            IN  /\ observed.some =>
                       put[r].val.content_length =
                           Some([neg |-> FALSE, mag |-> observed.val])
                /\ ~observed.some <=> ~put[r].val.content_length.some

\* The bytes are visible ASCII or tab.
Visible(bytes) ==
    \A i \in 1..Len(bytes) : bytes[i] = 9 \/ (bytes[i] >= 32 /\ bytes[i] <= 126)

\* C19, as claimed: the content-type of the PUT is the value of the
\* Content-Type header of the response whenever the header is present,
\* whatever its bytes, and is unset exactly when the header is absent.
C19_ContentTypePassThrough ==
    \A r \in Reqs :
        put[r].some =>
            LET observed == fetched[r].val.val.content_type
            IN  /\ observed.some => put[r].val.content_type = Some(observed.val)
                /\ ~observed.some <=> ~put[r].val.content_type.some

\* C19, amended: the content-type of the PUT is the value of the
\* Content-Type header whenever the header is present and made of visible
\* ASCII and tab only; it is unset when the header is absent or holds any
\* other byte.
C19_ContentTypeVisibleOnly ==
    \A r \in Reqs :
        put[r].some =>
            LET observed == fetched[r].val.val.content_type
            IN  put[r].val.content_type =
                    IF observed.some /\ Visible(observed.val)
                    THEN Some(observed.val)
                    ELSE None

C19_Witness ==
    \E r, q \in Reqs :
        /\ put[r].some /\ put[q].some
        /\ fetched[r].val.val.content_type = Some(<<233>>)
        /\ put[r].val.content_type = None
        /\ put[q].val.content_type = Some(<<116>>)

\* s is the beginning of t.
IsPrefix(s, t) == Len(s) <= Len(t) /\ SubSeq(t, 1, Len(s)) = s

\* C20: no chunk of the body is read before the PUT is issued; during the
\* PUT the chunks pass once each and in the order of the source, so what the
\* store received, what the relay holds and what the source has left make
\* up the body; when the PUT is acknowledged the store has received exactly
\* the chunks of the source up to its end.
C20_SinglePassInOrder ==
    \A r \in Reqs :
        /\ ~Occurs(hist[r], "put") =>
               /\ ~Occurs(hist[r], "chunk")
               /\ held[r] = <<>>
               /\ stream[r] = NoStream
               /\ upload[r] = NoUpload
        /\ Occurs(hist[r], "put") =>
               LET body == fetched[r].val.val.body
               IN  /\ IsPrefix(upload[r].received, body)
                   /\ upload[r].status \in {"open", "stored"} =>
                          upload[r].received \o held[r] \o stream[r].chunks = body
                   /\ Count(hist[r], "chunk") =
                          Len(body) - Len(stream[r].chunks)
                   /\ upload[r].status = "stored" =>
                          /\ upload[r].received = body
                          /\ ~fetched[r].val.val.broken
                   /\ \A k \in Suffixes :
                          store[k].some /\ store[k].val.by = r =>
                              store[k].val.body = body

C20_Witness ==
    \E r \in Reqs :
        /\ Success(r)
        /\ Len(upload[r].received) = MaxChunks
        /\ upload[r].received = fetched[r].val.val.body
        /\ store[req[r].val.body.suffix].val.by = r
        /\ Count(hist[r], "chunk") > 1

====
